---- MODULE Spec2Model ----
(***************************************************************************)
(* Model of the Mustache Harnesses storefront scripts: the cart and promo  *)
(* module (js/cart.js), the order history and checkout (js/checkout.js),   *)
(* the product loader (js/cart.js, products section), and the shop and     *)
(* checkout pages (js/main.js, js/filters.js).                             *)
(*                                                                         *)
(* Money is an integer number of cents.  Prices are multiples of 10 cents  *)
(* so that the 10% discount is an exact integer.                           *)
(***************************************************************************)
EXTENDS Integers, Sequences, FiniteSets, TLC

\* ------------------------------------------------------------------------
\* Bounds of the model
\* ------------------------------------------------------------------------
MaxQty == 2          \* largest quantity a cart row may reach
MaxOrders == 2       \* largest length of the order history
MaxFetches == 3      \* largest number of fetches followed in one page view
MaxHistory == 2      \* largest number of entries of the session history

\* ------------------------------------------------------------------------
\* Input domains
\* ------------------------------------------------------------------------
\* (productId, size, color) triples a page can put in the cart; they differ
\* pairwise in exactly one of the three fields or in the product.
Variants ==
  { [productId |-> "p1", size |-> "S", color |-> "black"],
    [productId |-> "p1", size |-> "M", color |-> "black"],
    [productId |-> "p1", size |-> "S", color |-> "brown"] }

\* products.json: unit price of each product, in cents
PriceOf(productId) == IF productId = "p1" THEN 2500 ELSE 4000

AddQuantities == {1, 2}
UpdateQuantities == {-1, 0, 1, MaxQty}
CartIds == {"id1", "id2"}

\* what generateOrderNumber can produce (MH-<date>-<6 random characters>)
OrderNumbers == {"MH-20240116-ABC123", "MH-20240116-XYZ789"}
\* what new Date().toISOString() can produce
OrderDates == {"2024-01-16T10:00:00.000Z"}

\* The item objects the pages pass to addToCart (main.js:1424, 2925, 3765)
Items ==
  { [productId |-> v.productId, size |-> v.size, color |-> v.color,
     price |-> PriceOf(v.productId), quantity |-> q] :
       v \in Variants, q \in AddQuantities }

\* Promo codes typed by the user, as sequences of characters
Chars(str) ==
  CASE str = "AIFORHUMANS" -> <<"A","I","F","O","R","H","U","M","A","N","S">>
    [] str = "AIForHumans" -> <<"A","I","F","o","r","H","u","m","a","n","s">>
    [] str = " aiforhumans " -> <<" ","a","i","f","o","r","h","u","m","a","n","s"," ">>
    [] str = "AIFORHUMAN" -> <<"A","I","F","O","R","H","U","M","A","N">>
    [] str = "AI FORHUMANS" -> <<"A","I"," ","F","O","R","H","U","M","A","N","S">>
    [] str = "   " -> <<" "," "," ">>
    [] str = "Shapers" -> <<"S","h","a","p","e","r","s">>
    [] str = "Guards" -> <<"G","u","a","r","d","s">>
    [] OTHER -> <<>>

PromoInputs ==
  { Chars("AIFORHUMANS"), Chars("AIForHumans"), Chars(" aiforhumans "),
    Chars("AIFORHUMAN"), Chars("AI FORHUMANS"), Chars("   "), Chars("") }

\* the largest -MaxIterations the runner is started with
MaxRunnerIterations == 3

\* what -MaxIterations is given ([int], default 10): a count of iterations
IterationCounts == 0..MaxRunnerIterations

\* the completion marker the agent is told to reply with
CompleteMarker == "<promise>COMPLETE</promise>"

\* what one run of the agent can print: $null (nothing), or lines of text
AgentOutputs ==
  { <<>>,
    <<"US-003 implemented">>,
    <<"All stories pass", "<promise>COMPLETE</promise>">>,
    <<"Done. <promise>COMPLETE</promise>">> }

\* ralph.ps1 before it is started
NotStarted == [pc |-> "idle"]

VARIABLES
  cartStore,    \* localStorage['mh_cart']
  promoStore,   \* localStorage['mh_promo']
  ordersStore,  \* localStorage['mh_orders']
  fault,        \* how localStorage misbehaves: "none", "quota", "denied"
  last,         \* the last operation, its arguments and what it returned
  checkoutState, \* main.js checkoutState of the open checkout page
  productsCache, \* cart.js productsCache of the page view
  pendingLoads,  \* loadProducts calls that wait for their fetch to settle
  fetchCount,    \* fetches of /data/products.json issued in the page view
  shopOpen,      \* the shop page is the document on display
  shopState,     \* main.js shopState: allProducts, filteredProducts, filters
  history,       \* the entries of the session history of the tab
  historyIndex,  \* the position of the current entry in the history
  runner         \* ralph.ps1: where the script is, its variables, its exit code

\* the products loader of the page view
loaderVars == <<productsCache, pendingLoads, fetchCount>>

\* the state of the open page, which lives in the memory of the page view
\* the shop page and the session history of its tab
shopVars == <<shopOpen, shopState, history, historyIndex>>

pageVars == <<checkoutState, loaderVars, shopVars, runner>>

vars == <<cartStore, promoStore, ordersStore, fault, last, pageVars>>

\* ------------------------------------------------------------------------
\* localStorage
\* ------------------------------------------------------------------------
\* A stored value: the key is absent (getItem gives null), or holds text that
\* is not valid JSON, or holds the JSON of an array, or (mh_promo) plain text.
Absent == [kind |-> "absent", value |-> <<>>]
Corrupt == [kind |-> "corrupt", value |-> <<>>]
Json(rows) == [kind |-> "json", value |-> rows]
Text(chars) == [kind |-> "text", value |-> chars]

\* localStorage.getItem throws when access to the storage is denied
GetItemThrows == fault = "denied"
\* localStorage.setItem throws when access is denied or the quota is exceeded
SetItemThrows == fault \in {"denied", "quota"}
\* localStorage.removeItem throws when access is denied
RemoveItemThrows == fault = "denied"

\* the outcome of a block of code: it threw, or it completed with a value
Threw == [threw |-> TRUE, value |-> <<>>]
Done(v) == [threw |-> FALSE, value |-> v]

\* try { block } catch (error) { console.error(...); return fallback }
Catch(outcome, fallback) == IF outcome.threw THEN Done(fallback) ELSE outcome

\* stored = localStorage.getItem(key); return stored ? JSON.parse(stored) : []
ParseStored(store) ==
  IF GetItemThrows THEN Threw
  ELSE IF store.kind = "absent" THEN Done(<<>>)
  ELSE IF store.kind = "corrupt" THEN Threw
  ELSE Done(store.value)

\* an initCart without its try/catch
initCartUncaught == ParseStored(cartStore)

initCartOutcome == Catch(ParseStored(cartStore), <<>>)

initCart == initCartOutcome.value

getCart == initCart

getCartThrows == initCartOutcome.threw

\* localStorage.setItem(key, value) as a block of code
SetItem == IF SetItemThrows THEN Threw ELSE Done(<<>>)

\* localStorage.removeItem(key) as a block of code
RemoveItem == IF RemoveItemThrows THEN Threw ELSE Done(<<>>)

saveCartOutcome == Catch(SetItem, <<>>)

saveCartThrows == saveCartOutcome.threw

\* the value of mh_cart after saveCart(cart)
saveCart(cart) == IF SetItemThrows THEN cartStore ELSE Json(cart)

\* ------------------------------------------------------------------------
\* Array helpers (Array.prototype.findIndex / filter / reduce)
\* ------------------------------------------------------------------------
\* index of the first element satisfying P, 0 when there is none (JS: -1)
FindIndex(s, P(_)) ==
  IF \E i \in 1..Len(s) : P(s[i])
  THEN CHOOSE i \in 1..Len(s) : P(s[i]) /\ \A j \in 1..(i-1) : ~P(s[j])
  ELSE 0

\* ------------------------------------------------------------------------
\* Filter state and query strings (js/filters.js)
\* ------------------------------------------------------------------------
\* a number or null; null counts as 0 where JavaScript compares it to a number
Null == [isNull |-> TRUE, n |-> 0]
Num(n) == [isNull |-> FALSE, n |-> n]

getDefaultFilters ==
  [categories |-> <<>>, minPrice |-> Null, maxPrice |-> Null, colors |-> <<>>,
   sizes |-> <<>>, inStockOnly |-> FALSE, sort |-> "featured", search |-> <<>>]

\* a query string, as what URLSearchParams.get answers for each name: a
\* parameter is missing (null) or has a value
Missing == [present |-> FALSE, value |-> <<>>]
MissingWord == [present |-> FALSE, value |-> ""]
Param(value) == [present |-> TRUE, value |-> value]

\* the values of inStock and sort are compared whole, and are words here
EmptyQuery ==
  [categories |-> Missing, minPrice |-> Missing, maxPrice |-> Missing,
   colors |-> Missing, sizes |-> Missing, inStock |-> MissingWord,
   sort |-> MissingWord, search |-> Missing]

\* the products the shop page shows, as far as filtering and sorting read them
ShopProducts ==
  << [id |-> "p1", category |-> Chars("Shapers"), price |-> 25, inStock |-> TRUE,
      salesCount |-> 10, rating |-> 4, nameRank |-> 2, dateAdded |-> 20],
     [id |-> "p2", category |-> Chars("Guards"), price |-> 40, inStock |-> FALSE,
      salesCount |-> 30, rating |-> 5, nameRank |-> 1, dateAdded |-> 10] >>

\* the category checkboxes of the filter form, in document order
CategoryBoxes == << Chars("Shapers"), Chars("Guards") >>

\* the values of the price range checkboxes ("min-max")
PriceBoxes == { <<25, 50>> }

\* the sort orders the user picks
SortOptions == {"featured", "price-asc"}

\* the query strings of the links to the shop page
ShopQueries ==
  { EmptyQuery,
    [EmptyQuery EXCEPT !.categories = Param(Chars("Guards"))],
    [EmptyQuery EXCEPT !.minPrice = Param(<<"2", "5">>), !.maxPrice = Param(<<"5", "0">>)] }

\* no shop page is loaded
NoShop == [allProducts |-> <<>>, filteredProducts |-> <<>>, filters |-> getDefaultFilters]

\* a history entry of a document that is not the shop page; page tells the
\* documents of the history apart
OtherEntry(page) == [doc |-> "other", page |-> page, query |-> EmptyQuery,
                     hasState |-> FALSE, state |-> getDefaultFilters]

NoOp == [op |-> "none"]

\* no checkout page is open
NoCheckout == [open |-> FALSE]

\* let productsCache = null
NoCache == [loaded |-> FALSE, products |-> <<>>]

\* data.products of /data/products.json
Catalog == <<"p1", "p2">>

\* how a fetch of /data/products.json can end: an OK response with the
\* catalog, a response that is not OK, a rejected fetch, a body that is not JSON
FetchOutcomes == {"ok", "status", "network", "badjson"}

\* the functions of ProductsModule that start by awaiting loadProducts
LoadCallers == {"loadProducts", "getProductById", "getCategories", "getFeaturedProducts"}

Init ==
  /\ cartStore = Absent
  /\ promoStore = Absent
  /\ ordersStore = Absent
  /\ fault \in {"none", "denied"}
  /\ last = NoOp
  /\ checkoutState = NoCheckout
  /\ productsCache = NoCache
  /\ pendingLoads = 0
  /\ fetchCount = 0
  /\ shopOpen = FALSE
  /\ shopState = NoShop
  /\ history = <<OtherEntry(1)>>
  /\ historyIndex = 1
  /\ runner = NotStarted

\* ------------------------------------------------------------------------
\* Cart operations (js/cart.js)
\* ------------------------------------------------------------------------
\* CartModule.getCart called by a page
GetCart ==
  /\ last' = [op |-> "getCart", ret |-> getCart, threw |-> getCartThrows]
  /\ UNCHANGED <<cartStore, promoStore, ordersStore, fault, pageVars>>

\* a comparison that forgets the color
SameVariantNoColor(cartItem, item) ==
  /\ cartItem.productId = item.productId
  /\ cartItem.size = item.size

SameVariant(cartItem, item) ==
  /\ cartItem.productId = item.productId
  /\ cartItem.size = item.size
  /\ cartItem.color = item.color

\* an addToCart that never finds the existing row
addToCartAlwaysPush(cart, item, id) ==
  Append(cart, [productId |-> item.productId, size |-> item.size,
                color |-> item.color, price |-> item.price,
                quantity |-> item.quantity, cartId |-> id])

\* the cart addToCart builds; id is the value generateCartId produced
addToCartResult(cart, item, id) ==
  LET existingIndex == FindIndex(cart, LAMBDA cartItem : SameVariant(cartItem, item))
  IN IF existingIndex # 0
     THEN [cart EXCEPT ![existingIndex].quantity = @ + item.quantity]
     ELSE Append(cart, [productId |-> item.productId, size |-> item.size,
                        color |-> item.color, price |-> item.price,
                        quantity |-> item.quantity, cartId |-> id])

AddToCart(item, id) ==
  LET cart == getCart
      updated == addToCartResult(cart, item, id)
  IN /\ \A i \in 1..Len(updated) : updated[i].quantity <= MaxQty
     /\ cartStore' = saveCart(updated)
     /\ last' = [op |-> "addToCart", item |-> item, ret |-> updated,
                 threw |-> getCartThrows \/ saveCartThrows]
     /\ UNCHANGED <<promoStore, ordersStore, fault, pageVars>>

\* cart.filter(item => item.cartId !== cartId)
removeFromCartResult(cart, cartId) ==
  SelectSeq(cart, LAMBDA item : item.cartId # cartId)

RemoveFromCart(cartId) ==
  LET updatedCart == removeFromCartResult(getCart, cartId)
  IN /\ cartStore' = saveCart(updatedCart)
     /\ last' = [op |-> "removeFromCart", cartId |-> cartId, ret |-> updatedCart,
                 threw |-> getCartThrows \/ saveCartThrows]
     /\ UNCHANGED <<promoStore, ordersStore, fault, pageVars>>

\* an updateQuantity that adds the quantity instead of setting it
updateQuantityAdds(cart, cartId, quantity) ==
  [i \in 1..Len(cart) |->
     IF cart[i].cartId = cartId
     THEN [cart[i] EXCEPT !.quantity = @ + quantity] ELSE cart[i]]

\* the cart updateQuantity builds when quantity > 0
updateQuantityResult(cart, cartId, quantity) ==
  LET itemIndex == FindIndex(cart, LAMBDA item : item.cartId = cartId)
  IN IF itemIndex # 0 THEN [cart EXCEPT ![itemIndex].quantity = quantity] ELSE cart

UpdateQuantity(cartId, quantity) ==
  IF quantity <= 0
  THEN LET updatedCart == removeFromCartResult(getCart, cartId)
       IN /\ cartStore' = saveCart(updatedCart)
          /\ last' = [op |-> "updateQuantity", cartId |-> cartId, quantity |-> quantity,
                      ret |-> updatedCart, threw |-> getCartThrows \/ saveCartThrows]
          /\ UNCHANGED <<promoStore, ordersStore, fault, pageVars>>
  ELSE LET cart == getCart
           itemIndex == FindIndex(cart, LAMBDA item : item.cartId = cartId)
           updated == updateQuantityResult(cart, cartId, quantity)
       IN /\ cartStore' = IF itemIndex # 0 THEN saveCart(updated) ELSE cartStore
          /\ last' = [op |-> "updateQuantity", cartId |-> cartId, quantity |-> quantity,
                      ret |-> updated,
                      threw |-> getCartThrows \/ (itemIndex # 0 /\ saveCartThrows)]
          /\ UNCHANGED <<promoStore, ordersStore, fault, pageVars>>

\* clearCart: try { removeItem(mh_cart); removeItem(mh_promo) } catch { log }
\* the value of mh_cart after clearCart
clearedCart == IF RemoveItemThrows THEN cartStore ELSE Absent

\* a clearCart that forgets the promo code
clearedPromoKept == promoStore

\* the value of mh_promo after clearCart
clearedPromo == IF RemoveItemThrows THEN promoStore ELSE Absent

clearCartOutcome == Catch(RemoveItem, <<>>)

ClearCart ==
  /\ cartStore' = clearedCart
  /\ promoStore' = clearedPromo
  /\ last' = [op |-> "clearCart", threw |-> clearCartOutcome.threw]
  /\ UNCHANGED <<ordersStore, fault, pageVars>>

\* ------------------------------------------------------------------------
\* Promo codes (js/cart.js)
\* ------------------------------------------------------------------------
\* String.prototype.toUpperCase, one character at a time
UpperChar(c) ==
  CASE c = "a" -> "A" [] c = "f" -> "F" [] c = "h" -> "H" [] c = "i" -> "I"
    [] c = "m" -> "M" [] c = "n" -> "N" [] c = "o" -> "O" [] c = "r" -> "R"
    [] c = "s" -> "S" [] c = "u" -> "U" [] OTHER -> c

toUpperCase(str) == [i \in 1..Len(str) |-> UpperChar(str[i])]

\* String.prototype.trim: drops the white space at both ends
RECURSIVE trimStart(_)
trimStart(str) ==
  IF str # <<>> /\ Head(str) = " " THEN trimStart(Tail(str)) ELSE str

RECURSIVE trimEnd(_)
trimEnd(str) ==
  IF str # <<>> /\ str[Len(str)] = " " THEN trimEnd(SubSeq(str, 1, Len(str) - 1)) ELSE str

\* a normalisation that does not trim
trimNothing(str) == str

trim(str) == trimEnd(trimStart(str))

\* the keys of PROMO_CODES
PromoCodeKeys == { Chars("AIFORHUMANS") }

\* PROMO_CODES[code], as a percentage
DiscountPercent(code) == IF code = Chars("AIFORHUMANS") THEN 10 ELSE 0

\* try { return localStorage.getItem(mh_promo) } catch { return null }; null
\* is Absent
getAppliedPromoOutcome == Catch(IF GetItemThrows THEN Threw ELSE Done(promoStore), Absent)

getAppliedPromo == getAppliedPromoOutcome.value

\* validatePromoCode(code).valid
validatePromoCode(code) ==
  IF code = <<>> THEN FALSE
  ELSE toUpperCase(trim(code)) \in PromoCodeKeys

\* try { setItem(mh_promo, normalizedCode); return {success: true} }
\* catch { return {success: false} }
applyPromoOutcome == Catch(IF SetItemThrows THEN Threw ELSE Done(TRUE), FALSE)

ApplyPromoCode(code) ==
  LET valid == validatePromoCode(code)
      normalizedCode == toUpperCase(trim(code))
  IN /\ promoStore' = IF valid /\ ~SetItemThrows THEN Text(normalizedCode) ELSE promoStore
     /\ last' = [op |-> "applyPromoCode", code |-> code,
                 success |-> (valid /\ applyPromoOutcome.value),
                 threw |-> (valid /\ applyPromoOutcome.threw)]
     /\ UNCHANGED <<cartStore, ordersStore, fault, pageVars>>

removePromoOutcome == Catch(RemoveItem, <<>>)

RemovePromoCode ==
  /\ promoStore' = IF RemoveItemThrows THEN promoStore ELSE Absent
  /\ last' = [op |-> "removePromoCode", threw |-> removePromoOutcome.threw]
  /\ UNCHANGED <<cartStore, ordersStore, fault, pageVars>>

\* ------------------------------------------------------------------------
\* Totals (js/cart.js)
\* ------------------------------------------------------------------------
\* a subtotal that forgets the quantities
RECURSIVE SumPricesOnly(_)
SumPricesOnly(cart) ==
  IF cart = <<>> THEN 0 ELSE Head(cart).price + SumPricesOnly(Tail(cart))

\* cart.reduce((total, item) => total + item.price * item.quantity, 0)
RECURSIVE SumLineTotals(_)
SumLineTotals(cart) ==
  IF cart = <<>> THEN 0
  ELSE Head(cart).price * Head(cart).quantity + SumLineTotals(Tail(cart))

\* cart.reduce((count, item) => count + item.quantity, 0)
RECURSIVE SumQuantities(_)
SumQuantities(cart) ==
  IF cart = <<>> THEN 0 ELSE Head(cart).quantity + SumQuantities(Tail(cart))

calculateSubtotal == SumLineTotals(getCart)

getCartItemCount == SumQuantities(getCart)

calculateDiscount ==
  LET promoCode == getAppliedPromo
  IN IF promoCode.kind = "absent" \/ promoCode.value = <<>>
        \/ promoCode.value \notin PromoCodeKeys
     THEN 0
     ELSE (calculateSubtotal * DiscountPercent(promoCode.value)) \div 100

calculateTotal == calculateSubtotal - calculateDiscount

getCartSummary ==
  [subtotal |-> calculateSubtotal,
   promoCode |-> getAppliedPromo,
   discount |-> calculateDiscount,
   total |-> calculateSubtotal - calculateDiscount,
   shipping |-> 0,
   itemCount |-> getCartItemCount]

\* ------------------------------------------------------------------------
\* The checkout form and its field checks (js/main.js, js/checkout.js)
\* ------------------------------------------------------------------------
\* the fields of the checkout form that are validated, as getCheckoutFormData
\* reads them from an untouched form
EmptyForm ==
  [email |-> "", phone |-> "", firstName |-> "", lastName |-> "", address1 |-> "",
   city |-> "", state |-> "", zipCode |-> "", country |-> ""]

\* a form filled in with values that pass every check
FilledForm ==
  [email |-> "ann@example.com", phone |-> "", firstName |-> "Ann", lastName |-> "Lee",
   address1 |-> "1 Main St", city |-> "Reno", state |-> "NV", zipCode |-> "12345",
   country |-> "US"]

\* the values the user gives to a field
FieldValues(field) ==
  CASE field = "email" -> {"", "ann@example", "ann@example.com"}
    [] field = "phone" -> {"", "555-1234", "555-123-4567"}
    [] field = "zipCode" -> {"", "12345", "K1A 0B1"}
    [] field = "country" -> {"", "US", "CA"}
    [] field = "firstName" -> {"", "Ann"}
    [] field = "lastName" -> {"", "Lee"}
    [] field = "address1" -> {"", "1 Main St"}
    [] field = "city" -> {"", "Reno"}
    [] OTHER -> {"", "NV"}

\* validateEmail(email).valid: not empty and matched by /^[^\s@]+@[^\s@]+\.[^\s@]+$/
validateEmail(email) == email # "" /\ email \in {"ann@example.com"}

\* validatePhone(phone, false).valid: empty, or of the allowed characters
\* with 10 to 15 digits
validatePhone(phone) == phone = "" \/ phone \in {"555-123-4567"}

\* validateRequired(value, fieldName).valid
validateRequired(value) == value # ""

\* the values the pattern of validateZipCode for the country matches
ZipPattern(country) ==
  CASE country = "US" -> {"12345"}
    [] country = "CA" -> {"K1A 0B1"}
    [] OTHER -> {"12345", "K1A 0B1"}

\* validateZipCode(zipCode, country).valid
validateZipCode(zipCode, country) == zipCode # "" /\ zipCode \in ZipPattern(country)

\* ------------------------------------------------------------------------
\* Card number validation (js/checkout.js)
\* ------------------------------------------------------------------------
\* the decimal digits, and the value of one
Digits == <<"0", "1", "2", "3", "4", "5", "6", "7", "8", "9">>

IsDigit(c) == \E d \in 1..10 : Digits[d] = c

DigitValue(c) == (CHOOSE d \in 1..10 : Digits[d] = c) - 1

\* a value passed as a card number: a string, or something else (null, a
\* number)
CardString(chars) == [isString |-> TRUE, chars |-> chars]
NotAString == [isString |-> FALSE, chars |-> <<>>]

Rep(c, n) == [i \in 1..n |-> c]

\* the card numbers given to validateCreditCard: sixteen digits with every
\* ending, grouped numbers, numbers of 12, 13, 19 and 20 digits, other text
CardNumbers ==
  { CardString(<<"4">> \o Rep("1", 13) \o <<Digits[a], Digits[b]>>) : a, b \in 1..10 }
  \cup { CardString(<<"4", "1", "1", "1", " ">> \o Rep("1", 4) \o <<" ">> \o Rep("1", 4)
                    \o <<" ">> \o Rep("1", 4)),
         CardString(<<"4", "1", "1", "1", "-">> \o Rep("1", 4) \o <<"-">> \o Rep("1", 4)
                    \o <<"-">> \o Rep("1", 3) \o <<"2">>),
         CardString(<<" ", "4", "1", "1", "1", "\t">> \o Rep("1", 12) \o <<" ">>),
         CardString(<<"4">> \o Rep("2", 11)),
         CardString(<<"4">> \o Rep("2", 12)),
         CardString(<<"4">> \o Rep("2", 11) \o <<"3">>),
         CardString(<<"4">> \o Rep("2", 17) \o <<"4">>),
         CardString(<<"4">> \o Rep("2", 17) \o <<"5">>),
         CardString(<<"4">> \o Rep("2", 18) \o <<"8">>),
         CardString(Rep("0", 13)),
         CardString(<<"4", "1", "1", "1", "x">> \o Rep("1", 11)),
         CardString(<<"4", "1", "1", "1", ".">> \o Rep("1", 12)),
         CardString(<<>>),
         CardString(<<" ", "-", " ">>),
         NotAString }

\* cardNumber.replace(/[\s\-]/g, '')
RemoveSpacesAndDashes(chars) == SelectSeq(chars, LAMBDA c : c \notin {" ", "\t", "-"})

\* /^\d+$/.test(digitsOnly)
OnlyDigits(chars) == chars # <<>> /\ \A i \in 1..Len(chars) : IsDigit(chars[i])

\* the loop of luhnCheck from index i down, with its isEven flag and sum
RECURSIVE LuhnLoop(_, _, _, _)
LuhnLoop(cardNumber, i, isEven, sum) ==
  IF i = 0 THEN sum
  ELSE LET digit == DigitValue(cardNumber[i])
           doubled == IF 2 * digit > 9 THEN 2 * digit - 9 ELSE 2 * digit
       IN LuhnLoop(cardNumber, i - 1, ~isEven, sum + (IF isEven THEN doubled ELSE digit))

\* a luhnCheck that starts doubling at the rightmost digit
luhnCheckFromFirst(cardNumber) == LuhnLoop(cardNumber, Len(cardNumber), TRUE, 0) % 10 = 0

luhnCheck(cardNumber) == LuhnLoop(cardNumber, Len(cardNumber), FALSE, 0) % 10 = 0

validateCreditCard(cardNumber) ==
  LET digitsOnly == RemoveSpacesAndDashes(cardNumber.chars)
  IN IF ~cardNumber.isString \/ cardNumber.chars = <<>>
     THEN [valid |-> FALSE, message |-> "Card number is required."]
     ELSE IF Len(digitsOnly) = 0
     THEN [valid |-> FALSE, message |-> "Card number is required."]
     ELSE IF ~OnlyDigits(digitsOnly)
     THEN [valid |-> FALSE, message |-> "Card number should contain only digits."]
     ELSE IF Len(digitsOnly) < 13 \/ Len(digitsOnly) > 19
     THEN [valid |-> FALSE, message |-> "Please enter a valid card number (13-19 digits)."]
     ELSE IF ~luhnCheck(digitsOnly)
     THEN [valid |-> FALSE, message |-> "Please enter a valid card number."]
     ELSE [valid |-> TRUE, message |-> ""]

\* validateCreditCard(cardNumber) is called
ValidateCreditCard(cardNumber) ==
  /\ last' = [op |-> "validateCreditCard", cardNumber |-> cardNumber,
              result |-> validateCreditCard(cardNumber)]
  /\ UNCHANGED <<cartStore, promoStore, ordersStore, fault, pageVars>>

\* ------------------------------------------------------------------------
\* Order history and checkout (js/checkout.js)
\* ------------------------------------------------------------------------
getOrderHistoryOutcome == Catch(ParseStored(ordersStore), <<>>)

getOrderHistory == getOrderHistoryOutcome.value

\* CheckoutModule.getOrderHistory called by a page
GetOrderHistory ==
  /\ last' = [op |-> "getOrderHistory", ret |-> getOrderHistory,
              threw |-> getOrderHistoryOutcome.threw]
  /\ UNCHANGED <<cartStore, promoStore, ordersStore, fault, pageVars>>

\* items: cartItems.map(item => ({productId, name, price, size, color, quantity, image}))
OrderItems(cartItems) ==
  [i \in 1..Len(cartItems) |->
     [productId |-> cartItems[i].productId, size |-> cartItems[i].size,
      color |-> cartItems[i].color, price |-> cartItems[i].price,
      quantity |-> cartItems[i].quantity]]

\* the order object built from the cart items and the cart summary
BuildOrder(cartItems, cartSummary) ==
  [items |-> OrderItems(cartItems),
   totals |-> [subtotal |-> cartSummary.subtotal, discount |-> cartSummary.discount,
               promoCode |-> cartSummary.promoCode, shipping |-> cartSummary.shipping,
               total |-> cartSummary.total]]

\* orderRecord = {...order, orderNumber, orderDate, status: 'confirmed'}
OrderRecord(order, orderNumber, orderDate) ==
  [items |-> order.items, totals |-> order.totals, orderNumber |-> orderNumber,
   orderDate |-> orderDate, status |-> "confirmed"]

\* try { orders = getOrderHistory(); orders.push(orderRecord); setItem(...) }
\* catch { throw new Error('Failed to save order. Please try again.') }
saveOrderThrows == getOrderHistoryOutcome.threw \/ SetItem.threw

\* a saveOrder that writes the new record alone
saveOrderStoreOverwrite(orderRecord) ==
  IF saveOrderThrows THEN ordersStore ELSE Json(<<orderRecord>>)

\* the value of mh_orders after saveOrder wrote the record
saveOrderStore(orderRecord) ==
  IF saveOrderThrows THEN ordersStore ELSE Json(Append(getOrderHistory, orderRecord))

\* CheckoutModule.saveOrder called on its own
SaveOrder(order, orderNumber, orderDate) ==
  LET orderRecord == OrderRecord(order, orderNumber, orderDate)
  IN /\ Len(getOrderHistory) < MaxOrders
     /\ ordersStore' = saveOrderStore(orderRecord)
     /\ last' = [op |-> "saveOrder", saved |-> ~saveOrderThrows,
                 threw |-> saveOrderThrows]
     /\ UNCHANGED <<cartStore, promoStore, fault, pageVars>>

\* orders.find(order => order.orderNumber === orderNumber) || null
getOrderByNumber(orderNumber) ==
  LET orders == getOrderHistory
      index == FindIndex(orders, LAMBDA order : order.orderNumber = orderNumber)
  IN IF index = 0 THEN [isNull |-> TRUE] ELSE [isNull |-> FALSE, order |-> orders[index]]

\* validateExpiry(expiry).valid: MM/YY or MM/YYYY, not before the current
\* month and at most 20 years ahead; the values are judged for a current date
\* in 2026
validateExpiry(expiry) == expiry # "" /\ expiry \in {"12/30"}

\* validateCVV(cvv).valid: three or four digits
validateCVV(cvv) == cvv # "" /\ cvv \in {"123", "1234"}

\* the keys of the errors object of validateCheckoutForm(formData)
validateCheckoutForm(formData) ==
  (IF validateEmail(formData.email) THEN {} ELSE {"email"})
  \cup (IF validatePhone(formData.phone) THEN {} ELSE {"phone"})
  \cup {field \in {"firstName", "lastName", "address1", "city", "state", "country",
                   "cardName"} : ~validateRequired(formData[field])}
  \cup (IF validateZipCode(formData.zipCode, formData.country) THEN {} ELSE {"zipCode"})
  \cup (IF validateCreditCard(formData.cardNumber).valid THEN {} ELSE {"cardNumber"})
  \cup (IF validateExpiry(formData.expiry) THEN {} ELSE {"expiry"})
  \cup (IF validateCVV(formData.cvv) THEN {} ELSE {"cvv"})

\* a form with payment fields that passes validateCheckoutForm
ValidCardForm ==
  FilledForm @@ [cardNumber |-> CardString(<<"4">> \o Rep("1", 15)), cardName |-> "Ann Lee",
                 expiry |-> "12/30", cvv |-> "123"]

\* a form nobody filled in
EmptyCardForm ==
  EmptyForm @@ [cardNumber |-> CardString(<<>>), cardName |-> "", expiry |-> "", cvv |-> ""]

\* the form data given to processCheckout
CheckoutFormInputs ==
  { ValidCardForm,
    [ValidCardForm EXCEPT !.email = "ann@example"],
    [ValidCardForm EXCEPT !.cardNumber = CardString(<<"4">> \o Rep("1", 14) \o <<"2">>)],
    [ValidCardForm EXCEPT !.zipCode = "K1A 0B1", !.cvv = "12"],
    EmptyCardForm }

\* a processCheckout that does not look at the cart
cartNeverEmpty(cartItems) == FALSE

\* !cartItems || cartItems.length === 0
cartIsEmpty(cartItems) == cartItems = <<>>

\* no order, and the order processCheckout returns
NoOrder == [isNull |-> TRUE, orderNumber |-> ""]
SavedOrder(orderRecord) == [isNull |-> FALSE, orderNumber |-> orderRecord.orderNumber]

\* the errors processCheckout returns: null, or an object with these keys
NoErrors == [isNull |-> TRUE, keys |-> {}]
Errors(keys) == [isNull |-> FALSE, keys |-> keys]

\* CheckoutModule.processCheckout(formData, cartItems, cartSummary)
ProcessCheckout(formData, cartItems, cartSummary, orderNumber, orderDate) ==
  LET validation == validateCheckoutForm(formData)
      order == BuildOrder(cartItems, cartSummary)
      orderRecord == OrderRecord(order, orderNumber, orderDate)
      rejected == validation # {} \/ cartIsEmpty(cartItems)
      success == ~rejected /\ ~saveOrderThrows
      result == IF validation # {}
                THEN [success |-> FALSE, order |-> NoOrder, errors |-> Errors(validation)]
                ELSE IF cartIsEmpty(cartItems)
                THEN [success |-> FALSE, order |-> NoOrder, errors |-> Errors({"cart"})]
                ELSE IF saveOrderThrows
                THEN [success |-> FALSE, order |-> NoOrder, errors |-> Errors({"general"})]
                ELSE [success |-> TRUE, order |-> SavedOrder(orderRecord),
                      errors |-> NoErrors]
  IN /\ Len(getOrderHistory) < MaxOrders
     /\ ordersStore' = IF rejected THEN ordersStore ELSE saveOrderStore(orderRecord)
     /\ cartStore' = IF success THEN clearedCart ELSE cartStore
     /\ promoStore' = IF success THEN clearedPromo ELSE promoStore
     /\ last' = [op |-> "processCheckout", formValid |-> validation = {},
                 cartItems |-> cartItems, success |-> result.success, saved |-> success,
                 threw |-> FALSE, order |-> result.order, errors |-> result.errors]
     /\ UNCHANGED <<fault, pageVars>>

\* ------------------------------------------------------------------------
\* The checkout page (js/main.js)
\* ------------------------------------------------------------------------
\* validateCheckoutField(fieldName, formData, showErrors)
validateCheckoutField(fieldName, formData) ==
  CASE fieldName = "email" -> validateEmail(formData.email)
    [] fieldName = "phone" -> validatePhone(formData.phone)
    [] fieldName = "zipCode" -> validateZipCode(formData.zipCode, formData.country)
    [] OTHER -> validateRequired(formData[fieldName])

checkoutRequiredFields ==
  {"email", "firstName", "lastName", "address1", "city", "state", "zipCode", "country"}

\* a validateCheckoutFormData that forgets the optional phone field
validateRequiredFieldsOnly(formData) ==
  \A field \in checkoutRequiredFields : validateCheckoutField(field, formData)

validateCheckoutFormData(formData) ==
  /\ \A field \in checkoutRequiredFields : validateCheckoutField(field, formData)
  /\ validateCheckoutField("phone", formData)

\* the disabled property of the Place Order button after
\* updateCheckoutSubmitState(formData)
updateCheckoutSubmitState(formData) == ~validateCheckoutFormData(formData)

\* initCheckoutPage: the page keeps the cart and its summary as read at load.
\* With an empty cart it hides the layout and returns before wiring the form
\* and before setting the button, which stays as the markup has it.
InitCheckoutPage ==
  /\ ~checkoutState.open
  /\ \E markupDisabled \in BOOLEAN :
       checkoutState' = [open |-> TRUE, cartItems |-> getCart, summary |-> getCartSummary,
                         wired |-> Len(getCart) > 0, form |-> EmptyForm,
                         submitDisabled |-> IF Len(getCart) > 0
                                            THEN updateCheckoutSubmitState(EmptyForm)
                                            ELSE markupDisabled]
  /\ last' = [op |-> "initCheckoutPage", threw |-> FALSE]
  /\ UNCHANGED <<cartStore, promoStore, ordersStore, fault, runner, loaderVars, shopVars>>

\* handleCheckoutFieldChange after the user gave a field a value
ChangeCheckoutField(field, value) ==
  LET formData == [checkoutState.form EXCEPT ![field] = value]
  IN /\ checkoutState.open
     /\ checkoutState.wired
     /\ checkoutState' = [checkoutState EXCEPT
                            !.form = formData,
                            !.submitDisabled = updateCheckoutSubmitState(formData)]
     /\ last' = [op |-> "changeField", field |-> field]
     /\ UNCHANGED <<cartStore, promoStore, ordersStore, fault, runner, loaderVars, shopVars>>

\* the browser fills in the whole form, and handleCheckoutFieldChange has run
\* for its last field
AutofillCheckoutForm ==
  /\ checkoutState.open
  /\ checkoutState.wired
  /\ checkoutState' = [checkoutState EXCEPT
                         !.form = FilledForm,
                         !.submitDisabled = updateCheckoutSubmitState(FilledForm)]
  /\ last' = [op |-> "changeField", field |-> "all"]
  /\ UNCHANGED <<cartStore, promoStore, ordersStore, fault, runner, loaderVars, shopVars>>

\* the user leaves the checkout page without placing an order
LeaveCheckoutPage ==
  /\ checkoutState.open
  /\ checkoutState' = NoCheckout
  /\ last' = NoOp
  /\ UNCHANGED <<cartStore, promoStore, ordersStore, fault, runner, loaderVars, shopVars>>

\* handleCheckoutSubmit: the form is validated, and when it is valid
\* processCheckoutOrder(formData) runs: it disables the button, saves the
\* order, clears the cart and leaves for the confirmation page; its finally
\* block enables the button again.  The form is wired only when the cart was
\* not empty at load.
PlaceOrder(orderNumber, orderDate) ==
  LET cartItems == checkoutState.cartItems
      summary == checkoutState.summary
      order == BuildOrder(cartItems, summary)
      orderRecord == OrderRecord(order, orderNumber, orderDate)
      isValid == validateCheckoutFormData(checkoutState.form)
      saved == isValid /\ ~saveOrderThrows
  IN /\ checkoutState.open
     /\ checkoutState.wired
     /\ Len(getOrderHistory) < MaxOrders
     /\ ordersStore' = IF isValid THEN saveOrderStore(orderRecord) ELSE ordersStore
     /\ cartStore' = IF saved THEN clearedCart ELSE cartStore
     /\ promoStore' = IF saved THEN clearedPromo ELSE promoStore
     \* window.location.href = confirmation.html: the page is left
     /\ checkoutState' = IF saved THEN NoCheckout
                         ELSE IF isValid THEN [checkoutState EXCEPT !.submitDisabled = FALSE]
                         ELSE checkoutState
     /\ last' = [op |-> "placeOrder", success |-> saved, saved |-> saved,
                 threw |-> FALSE]
     /\ UNCHANGED <<fault, runner, loaderVars, shopVars>>

\* something else leaves text that is not JSON under mh_orders
CorruptOrders ==
  /\ fault # "denied"
  /\ ordersStore.kind = "json"
  /\ ordersStore' = Corrupt
  /\ last' = NoOp
  /\ UNCHANGED <<cartStore, promoStore, fault, pageVars>>

\* ------------------------------------------------------------------------
\* Product loader (js/cart.js, Product Data Module)
\* ------------------------------------------------------------------------
\* if (productsCache) return productsCache
cacheHit == productsCache.loaded

\* response = await fetch(...); if (!response.ok) throw ...; data = await
\* response.json(); return data.products
FetchProducts(outcome) == IF outcome = "ok" THEN Done(Catalog) ELSE Threw

\* how loadProducts ends when its fetch settles with the outcome
loadProductsOutcome(outcome) == Catch(FetchProducts(outcome), <<>>)

\* productsCache after the fetch of a loadProducts call settled
cacheAfterFetch(outcome) ==
  IF outcome = "ok" THEN [loaded |-> TRUE, products |-> Catalog] ELSE productsCache

\* a call of loadProducts, directly or at the start of another function of
\* ProductsModule, runs up to its first await
LoadProducts(caller) ==
  /\ IF cacheHit
     THEN /\ last' = [op |-> "loadProducts", caller |-> caller, settled |-> TRUE,
                      outcome |-> "cached", ret |-> productsCache.products,
                      threw |-> FALSE]
          /\ UNCHANGED <<pendingLoads, fetchCount>>
     ELSE /\ fetchCount < MaxFetches
          /\ fetchCount' = fetchCount + 1
          /\ pendingLoads' = pendingLoads + 1
          /\ last' = [op |-> "loadProducts", caller |-> caller, settled |-> FALSE]
  /\ UNCHANGED <<cartStore, promoStore, ordersStore, fault, runner, checkoutState, productsCache,
               shopVars>>

\* the fetch of one waiting loadProducts call settles and the call returns
FetchSettles(outcome) ==
  /\ pendingLoads > 0
  /\ pendingLoads' = pendingLoads - 1
  /\ productsCache' = cacheAfterFetch(outcome)
  /\ last' = [op |-> "loadProducts", caller |-> "resumed", settled |-> TRUE,
              outcome |-> outcome, ret |-> loadProductsOutcome(outcome).value,
              threw |-> loadProductsOutcome(outcome).threw]
  /\ UNCHANGED <<cartStore, promoStore, ordersStore, fault, runner, checkoutState, fetchCount,
               shopVars>>

\* the browser opens another page: the scripts start again with empty memory
NewPageView ==
  /\ productsCache' = NoCache
  /\ fetchCount' = 0
  /\ pendingLoads' = 0
  /\ last' = NoOp
  /\ UNCHANGED <<cartStore, promoStore, ordersStore, fault, runner, checkoutState, shopVars>>

\* ------------------------------------------------------------------------
\* Filters and the query string (js/filters.js)
\* ------------------------------------------------------------------------
\* a join that puts nothing between the values
RECURSIVE JoinPlain(_)
JoinPlain(list) == IF list = <<>> THEN <<>> ELSE Head(list) \o JoinPlain(Tail(list))

\* Array.prototype.join(',') of a list of strings
RECURSIVE JoinComma(_)
JoinComma(list) ==
  IF list = <<>> THEN <<>>
  ELSE IF Len(list) = 1 THEN list[1]
  ELSE list[1] \o <<",">> \o JoinComma(Tail(list))

\* String.prototype.split(','): the pieces between the commas; acc is the
\* piece being read
RECURSIVE SplitFrom(_, _)
SplitFrom(str, acc) ==
  IF str = <<>> THEN <<acc>>
  ELSE IF Head(str) = "," THEN <<acc>> \o SplitFrom(Tail(str), <<>>)
  ELSE SplitFrom(Tail(str), Append(acc, Head(str)))

SplitComma(str) == SplitFrom(str, <<>>)

\* param.split(',').filter(c => c.trim())
ParseList(str) == SelectSeq(SplitComma(str), LAMBDA c : trim(c) # <<>>)

\* Number.prototype.toString of a whole number that is not negative
RECURSIVE NumberToString(_)
NumberToString(n) ==
  IF n < 10 THEN <<Digits[n + 1]>>
  ELSE NumberToString(n \div 10) \o <<Digits[(n % 10) + 1]>>

\* the value of the digits at the start of str, read after acc
RECURSIVE LeadingNumber(_, _)
LeadingNumber(str, acc) ==
  IF str # <<>> /\ IsDigit(Head(str))
  THEN LeadingNumber(Tail(str), 10 * acc + DigitValue(Head(str)))
  ELSE acc

\* parseFloat reads the whole number, with its sign, at the start of the
\* string; NaN is Null here
parseFloat(str) ==
  LET t == trimStart(str)
  IN IF t # <<>> /\ IsDigit(Head(t)) THEN Num(LeadingNumber(t, 0))
     ELSE IF Len(t) > 1 /\ Head(t) = "-" /\ IsDigit(t[2])
     THEN Num(0 - LeadingNumber(Tail(t), 0))
     ELSE Null

\* the price bound parseFiltersFromURL reads from a parameter
ParsePrice(param) ==
  IF param.present /\ param.value # <<>> /\ ~parseFloat(param.value).isNull
     /\ parseFloat(param.value).n >= 0
  THEN parseFloat(param.value)
  ELSE Null

validSorts ==
  {"featured", "price-asc", "price-desc", "name", "newest", "best-sellers", "rating"}

parseFiltersFromURL(query) ==
  [categories |-> IF query.categories.present /\ query.categories.value # <<>>
                  THEN ParseList(query.categories.value) ELSE <<>>,
   minPrice |-> ParsePrice(query.minPrice),
   maxPrice |-> ParsePrice(query.maxPrice),
   colors |-> IF query.colors.present /\ query.colors.value # <<>>
              THEN ParseList(query.colors.value) ELSE <<>>,
   sizes |-> IF query.sizes.present /\ query.sizes.value # <<>>
             THEN ParseList(query.sizes.value) ELSE <<>>,
   inStockOnly |-> (query.inStock.present /\ query.inStock.value \in {"true", "1"}),
   sort |-> IF query.sort.present /\ query.sort.value \in validSorts
            THEN query.sort.value ELSE "featured",
   search |-> IF query.search.present /\ query.search.value # <<>>
              THEN trim(query.search.value) ELSE <<>>]

buildURLFromFilters(filters) ==
  [categories |-> IF Len(filters.categories) > 0
                  THEN Param(JoinComma(filters.categories)) ELSE Missing,
   minPrice |-> IF ~filters.minPrice.isNull
                THEN Param(NumberToString(filters.minPrice.n)) ELSE Missing,
   maxPrice |-> IF ~filters.maxPrice.isNull
                THEN Param(NumberToString(filters.maxPrice.n)) ELSE Missing,
   colors |-> IF Len(filters.colors) > 0
              THEN Param(JoinComma(filters.colors)) ELSE Missing,
   sizes |-> IF Len(filters.sizes) > 0
             THEN Param(JoinComma(filters.sizes)) ELSE Missing,
   inStock |-> IF filters.inStockOnly THEN Param("true") ELSE MissingWord,
   sort |-> IF filters.sort # "featured" THEN Param(filters.sort) ELSE MissingWord,
   search |-> IF trim(filters.search) # <<>> THEN Param(trim(filters.search)) ELSE Missing]

\* ------------------------------------------------------------------------
\* Filtering and sorting of products (js/cart.js, js/filters.js)
\* ------------------------------------------------------------------------
Includes(list, x) == \E i \in 1..Len(list) : list[i] = x

\* filterProducts, for the criteria the shop page varies; a price bound of
\* null is compared as the number 0
filterProducts(products, filters) ==
  LET byCategory ==
        IF Len(filters.categories) > 0
        THEN SelectSeq(products, LAMBDA product : Includes(filters.categories, product.category))
        ELSE products
      byMin == SelectSeq(byCategory, LAMBDA product : product.price >= filters.minPrice.n)
      byMax == SelectSeq(byMin, LAMBDA product : product.price <= filters.maxPrice.n)
  IN IF filters.inStockOnly THEN SelectSeq(byMax, LAMBDA product : product.inStock)
     ELSE byMax

\* the value the comparison function of sortProducts orders by, smallest first
SortKey(product, sortBy) ==
  CASE sortBy = "price-asc" -> product.price
    [] sortBy = "price-desc" -> 0 - product.price
    [] sortBy = "name" -> product.nameRank
    [] sortBy = "newest" -> 0 - product.dateAdded
    [] sortBy = "best-sellers" -> 0 - product.salesCount
    [] sortBy = "rating" -> 0 - product.rating
    [] OTHER -> 0 - (product.salesCount * 5 + product.rating * 1000)

\* Array.prototype.sort is stable: insert each product after those not larger
RECURSIVE InsertSorted(_, _, _)
InsertSorted(sorted, product, sortBy) ==
  IF sorted = <<>> THEN <<product>>
  ELSE IF SortKey(Head(sorted), sortBy) <= SortKey(product, sortBy)
  THEN <<Head(sorted)>> \o InsertSorted(Tail(sorted), product, sortBy)
  ELSE <<product>> \o sorted

RECURSIVE SortFrom(_, _, _)
SortFrom(products, sorted, sortBy) ==
  IF products = <<>> THEN sorted
  ELSE SortFrom(Tail(products), InsertSorted(sorted, Head(products), sortBy), sortBy)

sortProducts(products, sortBy) == SortFrom(products, <<>>, sortBy)

\* no query string of the model carries a search term, and the search step
\* of applyFiltersToProducts passes every product on
applyFiltersToProducts(products, filters) ==
  sortProducts(filterProducts(products, filters), filters.sort)

\* ------------------------------------------------------------------------
\* The shop page and the session history (js/main.js, js/filters.js)
\* ------------------------------------------------------------------------
\* the session history after updateURLWithFilters(filters, replaceState) ran
\* with the entry at index current
updateURLWithFilters(entries, index, filters, replaceState) ==
  LET entry == [entries[index] EXCEPT !.query = buildURLFromFilters(filters),
                                      !.hasState = TRUE, !.state = filters]
  IN IF replaceState
     THEN [entries |-> [entries EXCEPT ![index] = entry], index |-> index]
     ELSE [entries |-> Append(SubSeq(entries, 1, index), entry), index |-> index + 1]

\* applyShopFilters with shopState.filters set to filters, the history being
\* entries with the entry at index current
applyShopFilters(allProducts, filters, entries, index) ==
  /\ shopState' = [allProducts |-> allProducts, filters |-> filters,
                   filteredProducts |-> applyFiltersToProducts(allProducts, filters)]
  /\ history' = updateURLWithFilters(entries, index, filters, TRUE).entries
  /\ historyIndex' = updateURLWithFilters(entries, index, filters, TRUE).index

\* the products loadShopProducts leaves in shopState.allProducts: the
\* catalogue, or nothing when loadProducts failed
LoadedProducts == {ShopProducts, <<>>}

\* initShopPage in a document just loaded for the entry at index
initShopPage(allProducts, entries, index) ==
  /\ shopOpen' = TRUE
  /\ applyShopFilters(allProducts, parseFiltersFromURL(entries[index].query), entries, index)

\* the user follows a link to the shop page: the browser drops the forward
\* entries, adds an entry for the new document, and initShopPage runs
OpenShop(query, allProducts) ==
  LET entry == [doc |-> "shop", page |-> historyIndex + 1, query |-> query,
                hasState |-> FALSE, state |-> getDefaultFilters]
  IN /\ historyIndex < MaxHistory
     /\ initShopPage(allProducts, Append(SubSeq(history, 1, historyIndex), entry),
                     historyIndex + 1)
     /\ last' = [op |-> "openShop"]
     /\ UNCHANGED <<cartStore, promoStore, ordersStore, fault, runner, checkoutState, loaderVars>>

\* the categories updateFiltersFromForm reads when the boxes of ticked are
\* checked: in the order of the boxes in the document
CheckedCategories(ticked) == SelectSeq(CategoryBoxes, LAMBDA c : Includes(ticked, c))

\* a filter change of the user: shopState.filters becomes new, and
\* applyShopFilters runs
ChangeFilters(new) ==
  /\ shopOpen
  /\ applyShopFilters(shopState.allProducts, new, history, historyIndex)
  /\ last' = [op |-> "changeFilters", from |-> shopState.filters, to |-> new]
  /\ UNCHANGED <<cartStore, promoStore, ordersStore, fault, runner, checkoutState, loaderVars,
                 shopOpen>>

\* updateFiltersFromForm when the boxes of the categories ticked are checked,
\* the price box of range is (<<>> for none), and the in-stock box is as
\* inStockOnly says
updateFiltersFromForm(ticked, range, inStockOnly) ==
  [shopState.filters EXCEPT
     !.categories = CheckedCategories(ticked),
     !.minPrice = IF range = <<>> THEN Null ELSE Num(range[1]),
     !.maxPrice = IF range = <<>> THEN Null ELSE Num(range[2]),
     !.inStockOnly = inStockOnly]

\* the boxes syncFormWithFilters left checked: those of the categories and of
\* in-stock, and no price box
FormCategories == SelectSeq(CategoryBoxes, LAMBDA c : Includes(shopState.filters.categories, c))

\* the 'change' handler of the filter form after the user clicked the box of
\* category c
ToggleCategory(c) ==
  LET ticked == IF Includes(FormCategories, c)
                THEN SelectSeq(FormCategories, LAMBDA x : x # c)
                ELSE Append(FormCategories, c)
  IN ChangeFilters(updateFiltersFromForm(ticked, <<>>, shopState.filters.inStockOnly))

\* the same handler after the user checked the price box of range
TickPrice(range) ==
  ChangeFilters(updateFiltersFromForm(FormCategories, range, shopState.filters.inStockOnly))

\* the same handler after the user clicked the in-stock box
ToggleInStock ==
  ChangeFilters(updateFiltersFromForm(FormCategories, <<>>, ~shopState.filters.inStockOnly))

\* handleSortChange
handleSortChange(sortBy) ==
  ChangeFilters([shopState.filters EXCEPT !.sort = sortBy])

clearShopFilters == ChangeFilters(getDefaultFilters)

\* handleHistoryNavigation, run by the popstate listener of
\* setupHistoryListener for the entry at index target
handleHistoryNavigation(target) ==
  LET entry == history[target]
      filters == IF entry.hasState THEN entry.state ELSE parseFiltersFromURL(entry.query)
  IN applyShopFilters(shopState.allProducts, filters, history, target)

\* the browser moves to the entry at index target.  Between two entries of
\* the loaded document it fires popstate; otherwise it loads the document of
\* the entry, and initShopPage runs when that is the shop page
Traverse(target, direction) ==
  /\ IF history[target].page = history[historyIndex].page
     THEN /\ shopOpen' = shopOpen
          /\ IF shopOpen THEN handleHistoryNavigation(target)
             ELSE shopState' = shopState /\ history' = history /\ historyIndex' = target
     ELSE IF history[target].doc = "shop"
     THEN \E allProducts \in LoadedProducts : initShopPage(allProducts, history, target)
     ELSE /\ shopOpen' = FALSE
          /\ shopState' = NoShop
          /\ history' = history
          /\ historyIndex' = target
  /\ last' = [op |-> direction]
  /\ UNCHANGED <<cartStore, promoStore, ordersStore, fault, runner, checkoutState, loaderVars>>

Back == historyIndex > 1 /\ Traverse(historyIndex - 1, "back")

Forward == historyIndex < Len(history) /\ Traverse(historyIndex + 1, "forward")

\* ------------------------------------------------------------------------
\* Filter state through the URL (js/filters.js)
\* ------------------------------------------------------------------------
\* the comma-separated values a query string carries for categories
CategoryParams ==
  { Missing, Param(<<>>), Param(Chars("Guards")),
    Param(Chars("Shapers") \o <<",">> \o Chars("Guards")),
    Param(<<",">> \o Chars("Guards") \o <<",">>),
    Param(<<" ", ",">> \o Chars("Guards")) }

\* the values a query string carries for minPrice
MinPriceParams ==
  { Missing, Param(<<>>), Param(<<"0">>), Param(<<"2", "5">>), Param(<<"0", "0", "7">>),
    Param(<<"-", "5">>), Param(<<"2", "5", "p", "x">>), Param(<<"a", "b", "c">>) }

MaxPriceParams == { Missing, Param(<<"5", "0">>) }

InStockParams == { MissingWord, Param("true"), Param("1"), Param("yes") }

SortParams == { MissingWord, Param("featured"), Param("price-asc"), Param("bogus") }

SearchParams == { Missing, Param(<<" ">> \o Chars("Guards") \o <<" ">>), Param(Chars("   ")) }

\* the query strings given to parseFiltersFromURL
QueryInputs ==
  { [categories |-> c, minPrice |-> lo, maxPrice |-> hi, colors |-> Missing,
     sizes |-> Missing, inStock |-> st, sort |-> so, search |-> se] :
      c \in CategoryParams, lo \in MinPriceParams, hi \in MaxPriceParams,
      st \in InStockParams, so \in SortParams, se \in SearchParams }

\* parseFiltersFromURL(queryString) is called, as the first call of a page
ParseURL(query) ==
  /\ last = NoOp
  /\ last' = [op |-> "parseFiltersFromURL", filters |-> parseFiltersFromURL(query)]
  /\ UNCHANGED <<cartStore, promoStore, ordersStore, fault, pageVars>>

\* buildURLFromFilters is called with the filters just parsed
BuildURL ==
  /\ last.op = "parseFiltersFromURL"
  /\ last' = [op |-> "buildURLFromFilters", filters |-> last.filters,
              query |-> buildURLFromFilters(last.filters)]
  /\ UNCHANGED <<cartStore, promoStore, ordersStore, fault, pageVars>>

\* parseFiltersFromURL is called with the query string just built
ParseBuilt ==
  /\ last.op = "buildURLFromFilters"
  /\ last' = [op |-> "parseBuilt", filters |-> last.filters, query |-> last.query,
              parsed |-> parseFiltersFromURL(last.query)]
  /\ UNCHANGED <<cartStore, promoStore, ordersStore, fault, pageVars>>

\* ------------------------------------------------------------------------
\* The agent runner (ralph.ps1)
\* ------------------------------------------------------------------------
\* a line -match "<promise>COMPLETE</promise>": the line contains the marker
LineMatches(line) ==
  line \in {CompleteMarker, "Done. <promise>COMPLETE</promise>"}

\* $Output -match "<promise>COMPLETE</promise>" as a condition: of a list
\* of lines -match gives the lines that match, which is true when there is
\* one; of $null it is false
OutputMatches(output) == \E k \in 1..Len(output) : LineMatches(output[k])

\* a loop test that stops one iteration early
loopTestExclusive(i, maxIterations) == i < maxIterations

\* $i -le $MaxIterations
loopTest(i, maxIterations) == i <= maxIterations

\* param(...); $ErrorActionPreference = "Stop"; $WorkingDir = Resolve-Path
\* $WorkingDir; $i = 1. Resolve-Path of a path that does not exist is a
\* terminating error outside any try: the script ends there
StartRalph(maxIterations, pathExists) ==
  /\ runner.pc = "idle"
  /\ runner' = IF pathExists
               THEN [pc |-> "test", MaxIterations |-> maxIterations, i |-> 1,
                     Output |-> <<>>, CapturedOutput |-> <<>>, iterations |-> <<>>]
               ELSE [pc |-> "failed", MaxIterations |-> maxIterations, i |-> 0,
                     Output |-> <<>>, CapturedOutput |-> <<>>, iterations |-> <<>>,
                     exitCode |-> 1]
  /\ UNCHANGED <<cartStore, promoStore, ordersStore, fault, last, checkoutState,
                 loaderVars, shopVars>>

\* for (...; $i -le $MaxIterations; ...): into the body, or past the loop
\* to Write-Host "Max iterations reached"; exit 1
LoopTest ==
  /\ runner.pc = "test"
  /\ runner' = IF loopTest(runner.i, runner.MaxIterations)
               THEN [runner EXCEPT !.pc = "try"]
               ELSE [pc |-> "exited", MaxIterations |-> runner.MaxIterations,
                     i |-> runner.i, Output |-> runner.Output,
                     CapturedOutput |-> runner.CapturedOutput,
                     iterations |-> runner.iterations, exitCode |-> 1]
  /\ UNCHANGED <<cartStore, promoStore, ordersStore, fault, last, checkoutState,
                 loaderVars, shopVars>>

\* try { Get-Content; $Output = docker ... 2>&1 | Tee-Object -Variable
\* CapturedOutput; Write-Host } catch { Write-Host; $Output = $CapturedOutput }
\* When the agent ran to its end, $Output and $CapturedOutput are what it
\* printed. When Get-Content or the pipeline raised an error, $Output is not
\* assigned in the try block, and $CapturedOutput is either what Tee-Object
\* had received until then (teeSet) or, when Tee-Object did not get to set
\* the variable, what the last iteration without an error left there
RunAgent(raised, printed, teeSet) ==
  LET captured == IF raised /\ ~teeSet THEN runner.CapturedOutput ELSE printed
  IN /\ runner.pc = "try"
     /\ runner' = [runner EXCEPT !.pc = "match",
                                 !.Output = captured,
                                 !.CapturedOutput = captured,
                                 !.iterations = Append(@, [raised |-> raised,
                                                           Output |-> captured])]
     /\ UNCHANGED <<cartStore, promoStore, ordersStore, fault, last, checkoutState,
                    loaderVars, shopVars>>

\* if ($Output -match "<promise>COMPLETE</promise>") { Write-Host "Done!"; exit 0 }
CheckOutput ==
  /\ runner.pc = "match"
  /\ runner' = IF OutputMatches(runner.Output)
               THEN [pc |-> "exited", MaxIterations |-> runner.MaxIterations,
                     i |-> runner.i, Output |-> runner.Output,
                     CapturedOutput |-> runner.CapturedOutput,
                     iterations |-> runner.iterations, exitCode |-> 0]
               ELSE [runner EXCEPT !.pc = "sleep"]
  /\ UNCHANGED <<cartStore, promoStore, ordersStore, fault, last, checkoutState,
                 loaderVars, shopVars>>

\* Start-Sleep -Seconds 2; $i++
SleepAndCount ==
  /\ runner.pc = "sleep"
  /\ runner' = [runner EXCEPT !.pc = "test", !.i = @ + 1]
  /\ UNCHANGED <<cartStore, promoStore, ordersStore, fault, last, checkoutState,
                 loaderVars, shopVars>>

\* ------------------------------------------------------------------------
\* The cached catalog under sorting, filtering and searching (js/cart.js,
\* js/filters.js)
\* ------------------------------------------------------------------------
\* A call on an array is described by what it leaves in the array it was
\* given, what it returns, and whether the array returned is another one
\* than the array given.

\* a third product, with the price of the first
OtherProduct ==
  [id |-> "p3", category |-> Chars("Guards"), price |-> 25, inStock |-> TRUE,
   salesCount |-> 30, rating |-> 3, nameRank |-> 3, dateAdded |-> 30]

\* data.products of the catalogs that can be loaded
CatalogLists ==
  { <<>>, ShopProducts,
    <<ShopProducts[2], ShopProducts[1]>>,
    <<ShopProducts[1], ShopProducts[2], OtherProduct>>,
    <<OtherProduct, ShopProducts[2], ShopProducts[1]>> }

\* the sortBy values of sortProducts, and one it does not know
SortInputs ==
  {"price-asc", "price-desc", "name", "newest", "best-sellers", "rating",
   "featured", "random"}

\* the filter criteria given to filterProducts
FilterInputs ==
  { [getDefaultFilters EXCEPT !.categories = categories, !.minPrice = Num(minPrice),
       !.maxPrice = Num(maxPrice), !.inStockOnly = inStockOnly, !.sort = sortBy] :
      categories \in {<<>>, <<Chars("Guards")>>}, minPrice \in {0, 30},
      maxPrice \in {30, 50}, inStockOnly \in BOOLEAN, sortBy \in SortOptions }

\* the search terms typed, trimmed and in lower case ("" for none), and the
\* products whose name, description or category includes the term
SearchTerms == {"", "guard", "mustache", "zzz"}

SearchHits(searchTerm) ==
  CASE searchTerm = "guard" -> {"p2", "p3"}
    [] searchTerm = "mustache" -> {"p1", "p2", "p3"}
    [] OTHER -> {}

\* products.sort(...) on the array given, without the copy
sortProductsInPlace(products, sortBy) ==
  [given |-> sortProducts(products, sortBy),
   returned |-> sortProducts(products, sortBy), copied |-> FALSE]

\* const sorted = [...products]; sorted.sort(...); return sorted
sortProductsCall(products, sortBy) ==
  [given |-> products, returned |-> sortProducts(products, sortBy), copied |-> TRUE]

\* let filtered = [...products]; filtered = filtered.filter(...); return filtered
filterProductsCall(products, filters) ==
  [given |-> products, returned |-> filterProducts(products, filters), copied |-> TRUE]

\* products.filter(product => name, description or category includes the term)
searchFilter(products, searchTerm) ==
  SelectSeq(products, LAMBDA product : product.id \in SearchHits(searchTerm))

\* searchProducts, once loadProducts returned the cached array: the array
\* itself when the term is empty
searchProductsCall(products, searchTerm) ==
  IF searchTerm = ""
  THEN [given |-> products, returned |-> products, copied |-> FALSE]
  ELSE [given |-> products, returned |-> searchFilter(products, searchTerm),
        copied |-> TRUE]

\* applyFiltersToProducts: the array given when ProductsModule is missing,
\* otherwise filterProducts, the search step, then sortProducts, each on
\* the array the step before returned
applyFiltersToProductsCall(products, filters, searchTerm, moduleLoaded) ==
  IF ~moduleLoaded
  THEN [given |-> products, returned |-> products, copied |-> FALSE]
  ELSE LET filtered == filterProductsCall(products, filters)
           searched == IF searchTerm # ""
                       THEN searchFilter(filtered.returned, searchTerm)
                       ELSE filtered.returned
           sorted == sortProductsCall(searched, filters.sort)
       IN [given |-> filtered.given, returned |-> sorted.returned, copied |-> TRUE]

\* productsCache = data.products after a fetch of the catalog
CatalogLoaded(products) ==
  /\ ~productsCache.loaded
  /\ productsCache' = [loaded |-> TRUE, products |-> products]
  /\ last' = NoOp
  /\ UNCHANGED <<cartStore, promoStore, ordersStore, fault, runner, checkoutState,
                 pendingLoads, fetchCount, shopVars>>

\* a call on the cached array: the cache holds what the call left in it
CallOnCatalog(op, call) ==
  /\ productsCache.loaded
  /\ productsCache' = [productsCache EXCEPT !.products = call.given]
  /\ last' = [op |-> op, given |-> productsCache.products,
              returned |-> call.returned, copied |-> call.copied]
  /\ UNCHANGED <<cartStore, promoStore, ordersStore, fault, runner, checkoutState,
                 pendingLoads, fetchCount, shopVars>>

SortProducts(sortBy) ==
  CallOnCatalog("sortProducts", sortProductsCall(productsCache.products, sortBy))

FilterProducts(filters) ==
  CallOnCatalog("filterProducts", filterProductsCall(productsCache.products, filters))

SearchProducts(searchTerm) ==
  CallOnCatalog("searchProducts", searchProductsCall(productsCache.products, searchTerm))

ApplyFiltersToProducts(filters, searchTerm, moduleLoaded) ==
  CallOnCatalog("applyFiltersToProducts",
    applyFiltersToProductsCall(productsCache.products, filters, searchTerm, moduleLoaded))

\* ------------------------------------------------------------------------
\* The environment of the page: the storage quota and what else writes the keys
\* ------------------------------------------------------------------------
\* the origin's storage fills up, or room is made again
QuotaChange ==
  /\ fault \in {"none", "quota"}
  /\ fault' = IF fault = "none" THEN "quota" ELSE "none"
  /\ last' = NoOp
  /\ UNCHANGED <<cartStore, promoStore, ordersStore, pageVars>>

\* something else leaves text that is not JSON under mh_cart
CorruptCart ==
  /\ fault # "denied"
  /\ cartStore.kind = "json"
  /\ cartStore' = Corrupt
  /\ last' = NoOp
  /\ UNCHANGED <<promoStore, ordersStore, fault, pageVars>>

Next ==
  \/ \E item \in Items, id \in CartIds : AddToCart(item, id)
  \/ \E cartId \in CartIds : RemoveFromCart(cartId)
  \/ \E cartId \in CartIds, quantity \in UpdateQuantities : UpdateQuantity(cartId, quantity)
  \/ ClearCart
  \/ \E code \in PromoInputs : ApplyPromoCode(code)
  \/ RemovePromoCode
  \/ QuotaChange
  \/ CorruptCart

Spec == Init /\ [][Next]_vars

\* The checkout page and the order history, over a cart of few items
CheckoutItems ==
  { item \in Items : item.quantity = 1 /\ item.color = "black" /\ item.size = "S" }

NextCheckout ==
  \/ \E item \in CheckoutItems : getCart = <<>> /\ AddToCart(item, "id1")
  \/ RemoveFromCart("id1")
  \/ \E quantity \in {0, 1} : UpdateQuantity("id1", quantity)
  \/ ClearCart
  \/ ApplyPromoCode(Chars("AIForHumans"))
  \/ RemovePromoCode
  \/ \E formData \in {ValidCardForm, EmptyCardForm}, cartItems \in {<<>>, getCart},
        orderNumber \in OrderNumbers, orderDate \in OrderDates :
        ProcessCheckout(formData, cartItems, getCartSummary, orderNumber, orderDate)
  \/ \E orderNumber \in OrderNumbers, orderDate \in OrderDates :
        SaveOrder(BuildOrder(getCart, getCartSummary), orderNumber, orderDate)
  \/ InitCheckoutPage
  \/ AutofillCheckoutForm
  \/ LeaveCheckoutPage
  \/ \E orderNumber \in OrderNumbers, orderDate \in OrderDates :
        PlaceOrder(orderNumber, orderDate)
  \/ QuotaChange
  \/ CorruptOrders

SpecCheckout == Init /\ [][NextCheckout]_vars

\* The product loader of one page view after another
NextProducts ==
  \/ \E caller \in LoadCallers : LoadProducts(caller)
  \/ \E outcome \in FetchOutcomes : FetchSettles(outcome)
  \/ NewPageView

SpecProducts == Init /\ [][NextProducts]_vars

\* Every operation that reads or writes localStorage or fetches the catalog,
\* with the failures of the storage and of the network
NextFailures ==
  \/ GetCart
  \/ GetOrderHistory
  \/ \E item \in CheckoutItems : getCart = <<>> /\ AddToCart(item, "id1")
  \/ RemoveFromCart("id1")
  \/ \E quantity \in {0, 1} : UpdateQuantity("id1", quantity)
  \/ ClearCart
  \/ ApplyPromoCode(Chars("AIForHumans"))
  \/ RemovePromoCode
  \/ SaveOrder(BuildOrder(getCart, getCartSummary), "MH-20240116-ABC123",
               "2024-01-16T10:00:00.000Z")
  \/ QuotaChange
  \/ CorruptCart
  \/ CorruptOrders
  \/ LoadProducts("loadProducts")
  \/ \E outcome \in FetchOutcomes : FetchSettles(outcome)
  \/ NewPageView

SpecFailures == Init /\ [][NextFailures]_vars

NextShop ==
  \/ \E query \in ShopQueries, allProducts \in LoadedProducts : OpenShop(query, allProducts)
  \/ \E i \in 1..Len(CategoryBoxes) : ToggleCategory(CategoryBoxes[i])
  \/ \E range \in PriceBoxes : TickPrice(range)
  \/ ToggleInStock
  \/ \E sortBy \in SortOptions : handleSortChange(sortBy)
  \/ clearShopFilters
  \/ Back
  \/ Forward

SpecShop == Init /\ [][NextShop]_vars

NextURL ==
  \/ \E query \in QueryInputs : ParseURL(query)
  \/ BuildURL
  \/ ParseBuilt

SpecURL == Init /\ [][NextURL]_vars

\* The checkout form: a cart of one item, the page, and the user at the form
CheckoutFields ==
  {"email", "phone", "firstName", "lastName", "address1", "city", "state", "zipCode",
   "country"}

NextForm ==
  \/ \E item \in CheckoutItems : getCart = <<>> /\ AddToCart(item, "id1")
  \/ InitCheckoutPage
  \/ \E field \in CheckoutFields : \E value \in FieldValues(field) :
        ChangeCheckoutField(field, value)
  \/ LeaveCheckoutPage
  \/ \E orderNumber \in {"MH-20240116-ABC123"}, orderDate \in OrderDates :
        PlaceOrder(orderNumber, orderDate)
  \/ QuotaChange

SpecForm == Init /\ [][NextForm]_vars

NextCard == \E cardNumber \in CardNumbers : ValidateCreditCard(cardNumber)

SpecCard == Init /\ [][NextCard]_vars

\* processCheckout on a cart of one item, with and without a promo code
NextProcess ==
  \/ \E item \in CheckoutItems : getCart = <<>> /\ AddToCart(item, "id1")
  \/ ApplyPromoCode(Chars("AIForHumans"))
  \/ \E formData \in CheckoutFormInputs, cartItems \in {<<>>, getCart},
        orderNumber \in OrderNumbers, orderDate \in OrderDates :
        ProcessCheckout(formData, cartItems, getCartSummary, orderNumber, orderDate)
  \/ QuotaChange
  \/ CorruptOrders

SpecProcess == Init /\ [][NextProcess]_vars

\* One run of the agent runner. Each step of the script is taken once it
\* can be: the script is sequential, and a run of the agent comes to an end
NextRalph ==
  \/ \E maxIterations \in IterationCounts, pathExists \in BOOLEAN :
        StartRalph(maxIterations, pathExists)
  \/ LoopTest
  \/ \E raised \in BOOLEAN, printed \in AgentOutputs, teeSet \in BOOLEAN :
        RunAgent(raised, printed, teeSet)
  \/ CheckOutput
  \/ SleepAndCount

SpecRalph == Init /\ [][NextRalph]_vars /\ WF_vars(NextRalph)

\* Sorting, filtering and searching the cached catalog of a page view
NextCatalog ==
  \/ \E products \in CatalogLists : CatalogLoaded(products)
  \/ \E sortBy \in SortInputs : SortProducts(sortBy)
  \/ \E filters \in FilterInputs : FilterProducts(filters)
  \/ \E searchTerm \in SearchTerms : SearchProducts(searchTerm)
  \/ \E filters \in FilterInputs, searchTerm \in SearchTerms, moduleLoaded \in BOOLEAN :
        ApplyFiltersToProducts(filters, searchTerm, moduleLoaded)
  \/ NewPageView

SpecCatalog == Init /\ [][NextCatalog]_vars

\* ------------------------------------------------------------------------
\* Properties of the cart and promo module
\* ------------------------------------------------------------------------
\* the rows held under a key: those of a JSON array, none otherwise
StoredRows(store) == IF store.kind = "json" THEN store.value ELSE <<>>

RowKey(row) == <<row.productId, row.size, row.color>>

\* new is old after adding item: the row of item's variant grew by
\* item.quantity, or one row carrying the item was appended
AddedTo(old, new, item) ==
  IF \E i \in 1..Len(old) : RowKey(old[i]) = RowKey(item)
  THEN /\ Len(new) = Len(old)
       /\ \A i \in 1..Len(old) :
            new[i] = IF RowKey(old[i]) = RowKey(item)
                     THEN [old[i] EXCEPT !.quantity = old[i].quantity + item.quantity]
                     ELSE old[i]
  ELSE /\ Len(new) = Len(old) + 1
       /\ SubSeq(new, 1, Len(old)) = old
       /\ RowKey(new[Len(new)]) = RowKey(item)
       /\ new[Len(new)].quantity = item.quantity
       /\ new[Len(new)].price = item.price

\* C1 as stated: addToCart(item) adds item.quantity to the stored row of the
\* same productId, size and color and changes no other row, or appends one
\* new row carrying the item when there is no such row.
C1_AsStated ==
  [][last'.op = "addToCart" =>
       AddedTo(StoredRows(cartStore), StoredRows(cartStore'), last'.item)]_vars

\* C1 amended: the same, provided localStorage accepts the write; when it
\* does not, the stored cart is left as it was.
C1_AddToCart ==
  [][last'.op = "addToCart" =>
       IF fault = "none"
       THEN AddedTo(StoredRows(cartStore), StoredRows(cartStore'), last'.item)
       ELSE cartStore' = cartStore]_vars

\* addToCart merged into an existing row while another row was in the cart
C1_Witness ==
  /\ last.op = "addToCart"
  /\ fault = "none"
  /\ Len(StoredRows(cartStore)) >= 2
  /\ \E i \in 1..Len(StoredRows(cartStore)) :
       /\ RowKey(StoredRows(cartStore)[i]) = RowKey(last.item)
       /\ StoredRows(cartStore)[i].quantity > last.item.quantity

\* C2: no two rows of the stored cart have the same (productId, size, color).
C2_UniqueVariants ==
  \A i, j \in 1..Len(StoredRows(cartStore)) :
    i # j => RowKey(StoredRows(cartStore)[i]) # RowKey(StoredRows(cartStore)[j])

\* the cart holds a row of every variant after an update of a quantity
C2_Witness ==
  /\ Len(StoredRows(cartStore)) = Cardinality(Variants)
  /\ last.op = "addToCart"
  /\ \E i \in 1..Len(StoredRows(cartStore)) : StoredRows(cartStore)[i].quantity > 1

\* the inputs that are AIFORHUMANS once trimmed and upper-cased
AcceptedPromoInputs ==
  { Chars("AIFORHUMANS"), Chars("AIForHumans"), Chars(" aiforhumans ") }

RECURSIVE ExpectedSubtotal(_, _)
ExpectedSubtotal(rows, n) ==
  IF n = 0 THEN 0 ELSE ExpectedSubtotal(rows, n - 1) + rows[n].quantity * rows[n].price

RECURSIVE ExpectedItemCount(_, _)
ExpectedItemCount(rows, n) ==
  IF n = 0 THEN 0 ELSE ExpectedItemCount(rows, n - 1) + rows[n].quantity

StoredSubtotal == ExpectedSubtotal(StoredRows(cartStore), Len(StoredRows(cartStore)))

\* C3 as stated: applyPromoCode(code) succeeds exactly when code, trimmed and
\* upper-cased, is AIFORHUMANS; it then stores the normalized code under
\* mh_promo and calculateDiscount returns 10% of the subtotal.
C3_AsStated ==
  last.op = "applyPromoCode" =>
    /\ last.success <=> last.code \in AcceptedPromoInputs
    /\ last.success =>
         /\ promoStore = Text(Chars("AIFORHUMANS"))
         /\ 10 * calculateDiscount = StoredSubtotal

\* C3 amended: applyPromoCode(code) succeeds exactly when the normalized code
\* is AIFORHUMANS and localStorage accepts the write; it then stores the
\* normalized code, and while that code is stored calculateDiscount returns
\* 10% of the subtotal.
C3_ApplyPromo ==
  /\ last.op = "applyPromoCode" =>
       /\ last.success <=> (last.code \in AcceptedPromoInputs /\ fault = "none")
       /\ last.success => promoStore = Text(Chars("AIFORHUMANS"))
  /\ promoStore = Text(Chars("AIFORHUMANS")) => 10 * calculateDiscount = StoredSubtotal

\* a code written in mixed case was applied to a cart that is not empty
C3_Witness ==
  /\ last.op = "applyPromoCode"
  /\ last.code \in { Chars("AIForHumans"), Chars(" aiforhumans ") }
  /\ last.success
  /\ calculateDiscount > 0

\* C4: getCartSummary returns subtotal = sum of price x quantity over the
\* stored rows, itemCount = sum of the quantities, shipping = 0 and
\* total = subtotal - discount, the discount being 10% of the subtotal when
\* the stored promo is AIFORHUMANS and 0 otherwise; calculateTotal agrees.
C4_Summary ==
  LET rows == StoredRows(cartStore)
      expectedDiscount ==
        IF promoStore = Text(Chars("AIFORHUMANS")) THEN StoredSubtotal \div 10 ELSE 0
  IN /\ getCartSummary.subtotal = StoredSubtotal
     /\ getCartSummary.itemCount = ExpectedItemCount(rows, Len(rows))
     /\ getCartSummary.shipping = 0
     /\ getCartSummary.discount = expectedDiscount
     /\ getCartSummary.total = StoredSubtotal - expectedDiscount
     /\ calculateTotal = getCartSummary.total

\* a discounted cart of two rows with different quantities
C4_Witness ==
  /\ Len(StoredRows(cartStore)) >= 2
  /\ StoredRows(cartStore)[1].quantity # StoredRows(cartStore)[2].quantity
  /\ promoStore = Text(Chars("AIFORHUMANS"))
  /\ getCartSummary.discount > 0

\* new is old after updateQuantity(cartId, quantity)
QuantityUpdated(old, new, cartId, quantity) ==
  IF quantity <= 0
  THEN /\ \A i \in 1..Len(new) : new[i].cartId # cartId
       /\ new = SelectSeq(old, LAMBDA row : row.cartId # cartId)
  ELSE IF \E i \in 1..Len(old) : old[i].cartId = cartId
  THEN /\ Len(new) = Len(old)
       /\ \E i \in 1..Len(old) :
            /\ old[i].cartId = cartId
            /\ new[i] = [old[i] EXCEPT !.quantity = quantity]
            /\ \A j \in 1..Len(old) : j # i => new[j] = old[j]
  ELSE new = old

\* C5 as stated: updateQuantity(cartId, q) with q <= 0 removes the row with
\* that cartId from the stored cart; with q > 0 and the cartId present it
\* sets that row's quantity to q and changes no other row.
C5_AsStated ==
  [][last'.op = "updateQuantity" =>
       QuantityUpdated(StoredRows(cartStore), StoredRows(cartStore'),
                       last'.cartId, last'.quantity)]_vars

\* C5 amended: the same, provided localStorage accepts the write; when it
\* does not, the stored cart is left as it was.
C5_UpdateQuantity ==
  [][last'.op = "updateQuantity" =>
       IF fault = "none"
       THEN QuantityUpdated(StoredRows(cartStore), StoredRows(cartStore'),
                            last'.cartId, last'.quantity)
       ELSE cartStore' = cartStore]_vars

\* updateQuantity raised one row of a cart of several rows
C5_Witness ==
  /\ last.op = "updateQuantity"
  /\ last.quantity > 1
  /\ fault = "none"
  /\ Len(StoredRows(cartStore)) >= 2
  /\ \E i \in 1..Len(StoredRows(cartStore)) :
       /\ StoredRows(cartStore)[i].cartId = last.cartId
       /\ StoredRows(cartStore)[i].quantity = last.quantity

\* updateQuantity with a quantity of 0 removed a row and left another
C5_WitnessRemove ==
  /\ last.op = "updateQuantity"
  /\ last.quantity <= 0
  /\ fault = "none"
  /\ Len(StoredRows(cartStore)) >= 1

\* ------------------------------------------------------------------------
\* Properties of the order history and the checkout
\* ------------------------------------------------------------------------
\* the order handed to saveOrder by the step that leads to last'
GivenOrder(op, cartItemsArg) ==
  CASE op = "placeOrder" -> BuildOrder(checkoutState.cartItems, checkoutState.summary)
    [] op = "processCheckout" -> BuildOrder(cartItemsArg, getCartSummary)
    [] OTHER -> BuildOrder(getCart, getCartSummary)

\* C6: each successful saveOrder appends exactly one record (the given order
\* plus orderNumber, orderDate and status 'confirmed') to the end of mh_orders
\* and leaves the orders stored before unchanged and in the same order; no
\* other cart, promo or checkout operation changes the stored orders.
C6_OrdersAppendOnly ==
  [][last'.op # "none" =>
       IF last'.op \in {"saveOrder", "processCheckout", "placeOrder"} /\ last'.saved
       THEN LET old == StoredRows(ordersStore)
                new == StoredRows(ordersStore')
                given == GivenOrder(last'.op,
                           IF last'.op = "processCheckout" THEN last'.cartItems ELSE <<>>)
            IN /\ Len(new) = Len(old) + 1
               /\ \A i \in 1..Len(old) : new[i] = old[i]
               /\ new[Len(new)].items = given.items
               /\ new[Len(new)].totals = given.totals
               /\ new[Len(new)].status = "confirmed"
               /\ new[Len(new)].orderNumber \in OrderNumbers
               /\ new[Len(new)].orderDate \in OrderDates
       ELSE ordersStore' = ordersStore]_vars

\* an order was appended to a history that already held a different order
C6_Witness ==
  /\ last.op \in {"saveOrder", "processCheckout", "placeOrder"}
  /\ last.saved
  /\ Len(StoredRows(ordersStore)) = 2
  /\ StoredRows(ordersStore)[1] # StoredRows(ordersStore)[2]

\* C7: after a checkout succeeded (processCheckout returned success, or the
\* Place Order handler saved the order) the stored cart is empty and no promo
\* code is applied.
C7_CheckoutClearsCart ==
  (last.op \in {"processCheckout", "placeOrder"} /\ last.success) =>
    /\ getCart = <<>>
    /\ getAppliedPromo = Absent
    /\ cartStore = Absent
    /\ promoStore = Absent

\* the Place Order handler saved an order with a discount
C7_Witness ==
  /\ last.op = "placeOrder"
  /\ last.success
  /\ Len(StoredRows(ordersStore)) >= 1
  /\ StoredRows(ordersStore)[Len(StoredRows(ordersStore))].totals.discount > 0
  /\ Len(StoredRows(ordersStore)[Len(StoredRows(ordersStore))].items) >= 1

\* processCheckout succeeded on a cart with a promo code
C7_WitnessModule ==
  /\ last.op = "processCheckout"
  /\ last.success
  /\ StoredRows(ordersStore)[Len(StoredRows(ordersStore))].totals.discount > 0

\* ------------------------------------------------------------------------
\* Properties of the product loader and of the error handling
\* ------------------------------------------------------------------------
CartAndPromoOps ==
  {"addToCart", "removeFromCart", "updateQuantity", "clearCart",
   "applyPromoCode", "removePromoCode"}

\* C8: when reading localStorage throws or the stored value is not valid
\* JSON, getCart and getOrderHistory return [] instead of throwing; when the
\* product fetch fails or answers with a non-OK status loadProducts resolves
\* to []; no cart or promo operation throws to its caller.
C8_DegradeToEmpty ==
  /\ last.op = "getCart" =>
       /\ ~last.threw
       /\ (fault = "denied" \/ cartStore.kind = "corrupt") => last.ret = <<>>
  /\ last.op = "getOrderHistory" =>
       /\ ~last.threw
       /\ (fault = "denied" \/ ordersStore.kind = "corrupt") => last.ret = <<>>
  /\ (last.op = "loadProducts" /\ last.settled) =>
       /\ ~last.threw
       /\ last.outcome \in {"status", "network", "badjson"} => last.ret = <<>>
  /\ last.op \in CartAndPromoOps => ~last.threw

\* getCart was called while mh_cart held text that is not JSON
C8_Witness ==
  /\ last.op = "getCart"
  /\ cartStore.kind = "corrupt"

\* getOrderHistory was called while mh_orders held text that is not JSON
C8_WitnessOrders ==
  /\ last.op = "getOrderHistory"
  /\ ordersStore.kind = "corrupt"

\* a fetch of the catalog answered with a status that is not OK
C8_WitnessFetch ==
  /\ last.op = "loadProducts"
  /\ last.settled
  /\ last.outcome = "status"

\* addToCart ran while the storage refused the write
C8_WitnessQuota ==
  /\ last.op = "addToCart"
  /\ fault = "quota"

\* C9 as stated: within one page view at most one fetch of
\* /data/products.json is issued, however the loadProducts calls interleave.
C9_AsStated == fetchCount <= 1

\* ------------------------------------------------------------------------
\* Properties of the shop page
\* ------------------------------------------------------------------------
\* C10 as stated: when the user has just changed the filters from a state A
\* to a different state B, a Back step leaves the shop page showing A: the
\* filters are A, the product list is the one A selects, and the URL is the
\* one built from A
C10_AsStated ==
  [][ (last.op = "changeFilters" /\ last.from # last.to /\ last'.op = "back")
      => /\ shopOpen'
         /\ shopState'.filters = last.from
         /\ shopState'.filteredProducts
              = applyFiltersToProducts(shopState.allProducts, last.from)
         /\ history'[historyIndex'].query = buildURLFromFilters(last.from) ]_vars

\* ------------------------------------------------------------------------
\* Properties of the filter state in the URL
\* ------------------------------------------------------------------------
\* C11: parseFiltersFromURL(buildURLFromFilters(f)) equals f for every filter
\* state f that parseFiltersFromURL returned, and buildURLFromFilters of the
\* default filters is the empty query string.
C11_RoundTrip ==
  /\ last.op = "parseBuilt" => last.parsed = last.filters
  /\ buildURLFromFilters(getDefaultFilters) = EmptyQuery

\* a filter state with two categories, a price bound and a search term went
\* through the URL
C11_Witness ==
  /\ last.op = "parseBuilt"
  /\ Len(last.filters.categories) = 2
  /\ last.filters.minPrice = Num(25)
  /\ last.filters.search = Chars("Guards")
  /\ last.filters.sort = "price-asc"
  /\ last.filters.inStockOnly

C12_WitnessFailed ==
  /\ checkoutState.open
  /\ ~checkoutState.submitDisabled
  /\ last.op = "placeOrder"
  /\ ~last.saved

\* ------------------------------------------------------------------------
\* Properties of the card number validation
\* ------------------------------------------------------------------------
\* the digit that is k-th from the right counts doubled, and reduced by 9
\* when above 9, for every second k
LuhnTerm(digits, k) ==
  LET d == DigitValue(digits[Len(digits) - k + 1])
  IN IF k % 2 = 1 THEN d ELSE IF 2 * d > 9 THEN 2 * d - 9 ELSE 2 * d

RECURSIVE LuhnSum(_, _)
LuhnSum(digits, k) == IF k = 0 THEN 0 ELSE LuhnSum(digits, k - 1) + LuhnTerm(digits, k)

\* the string without its spaces (blank characters) and dashes
WithoutSpacesAndDashes(chars) == SelectSeq(chars, LAMBDA c : c \notin {" ", "\t", "-"})

\* what the claim accepts: 13 to 19 decimal digits that pass the Luhn check
AcceptedCard(cardNumber) ==
  LET digits == WithoutSpacesAndDashes(cardNumber.chars)
  IN /\ cardNumber.isString
     /\ Len(digits) >= 13
     /\ Len(digits) <= 19
     /\ \A i \in 1..Len(digits) : IsDigit(digits[i])
     /\ LuhnSum(digits, Len(digits)) % 10 = 0

\* C16: validateCreditCard(s) returns valid=true exactly when s, without its
\* spaces and dashes, is a string of 13 to 19 decimal digits that passes the
\* Luhn check; every other input returns valid=false with a non-empty message.
C16_ValidateCreditCard ==
  last.op = "validateCreditCard" =>
    /\ last.result.valid <=> AcceptedCard(last.cardNumber)
    /\ ~last.result.valid => last.result.message # ""

\* a grouped number of 16 digits was accepted
C16_Witness ==
  /\ last.op = "validateCreditCard"
  /\ last.result.valid
  /\ Len(last.cardNumber.chars) = 19
  /\ last.cardNumber.chars[5] = " "

\* a number of 13 digits was accepted
C16_WitnessOdd ==
  /\ last.op = "validateCreditCard"
  /\ last.result.valid
  /\ Len(last.cardNumber.chars) = 13

\* a number of 16 digits failed the Luhn check
C16_WitnessLuhn ==
  /\ last.op = "validateCreditCard"
  /\ last.result.message = "Please enter a valid card number."

\* ------------------------------------------------------------------------
\* Properties of processCheckout
\* ------------------------------------------------------------------------
\* C13: processCheckout returns success=false, order null and a non-empty
\* errors object, and leaves mh_orders, mh_cart and mh_promo unchanged,
\* whenever the form data fails validation or cartItems is empty; it returns
\* success=true with the saved order and errors null only when the form is
\* valid, the cart is not empty and the order was stored.
C13_ProcessCheckout ==
  [][ last'.op = "processCheckout" =>
        /\ (~last'.formValid \/ last'.cartItems = <<>>) =>
             /\ ~last'.success
             /\ last'.order.isNull
             /\ ~last'.errors.isNull
             /\ last'.errors.keys # {}
             /\ ordersStore' = ordersStore
             /\ cartStore' = cartStore
             /\ promoStore' = promoStore
        /\ last'.success =>
             /\ last'.formValid
             /\ last'.cartItems # <<>>
             /\ last'.errors.isNull
             /\ ~last'.order.isNull
             /\ Len(StoredRows(ordersStore')) = Len(StoredRows(ordersStore)) + 1
             /\ StoredRows(ordersStore')[Len(StoredRows(ordersStore'))].orderNumber
                  = last'.order.orderNumber
             /\ StoredRows(ordersStore')[Len(StoredRows(ordersStore'))].items
                  = OrderItems(last'.cartItems) ]_vars

\* processCheckout succeeded on a valid form and a cart with a promo applied
C13_Witness ==
  /\ last.op = "processCheckout"
  /\ last.success
  /\ Len(StoredRows(ordersStore)) = 2
  /\ StoredRows(ordersStore)[2].totals.discount > 0

\* processCheckout turned down a form with a card number that fails the Luhn
\* check, the cart not being empty
C13_WitnessRejected ==
  /\ last.op = "processCheckout"
  /\ last.errors.keys = {"cardNumber"}
  /\ last.cartItems # <<>>
  /\ cartStore # Absent

\* processCheckout turned down an empty cart
C13_WitnessEmptyCart ==
  /\ last.op = "processCheckout"
  /\ last.errors.keys = {"cart"}

\* ------------------------------------------------------------------------
\* Properties of the generated identifiers
\* ------------------------------------------------------------------------
\* C14 as stated: no two orders in the order history share an orderNumber,
\* and getOrderByNumber(n) returns exactly the order that was saved with
\* number n.
C14_AsStated ==
  LET orders == getOrderHistory
  IN /\ \A i, j \in 1..Len(orders) :
          i # j => orders[i].orderNumber # orders[j].orderNumber
     /\ \A i \in 1..Len(orders) :
          getOrderByNumber(orders[i].orderNumber) = [isNull |-> FALSE, order |-> orders[i]]

\* C15 as stated: no two rows of the stored cart share a cartId (so that
\* removeFromCart(cartId) and updateQuantity(cartId, q) touch at most one row).
C15_AsStated ==
  LET cart == StoredRows(cartStore)
  IN \A i, j \in 1..Len(cart) : i # j => cart[i].cartId # cart[j].cartId

\* ------------------------------------------------------------------------
\* Properties of the agent runner
\* ------------------------------------------------------------------------
\* the iterations of the run whose output held the completion marker
MarkedIterations ==
  { k \in 1..Len(runner.iterations) : OutputMatches(runner.iterations[k].Output) }

\* what holds of a run of the loop at every moment: no more than
\* MaxIterations iterations were started; the loop has gone on after every
\* iteration without the marker, with or without an error; exit code 0 is
\* given in the first iteration with the marker, exit code 1 after
\* MaxIterations iterations without it
RunnerSafe ==
  runner.pc \in {"test", "try", "match", "sleep", "exited"} =>
    /\ Len(runner.iterations) <= runner.MaxIterations
    /\ \A k \in MarkedIterations : k = Len(runner.iterations)
    /\ runner.pc \in {"test", "try", "sleep"} => MarkedIterations = {}
    /\ runner.pc = "exited" /\ runner.exitCode = 0 =>
         MarkedIterations = {Len(runner.iterations)}
    /\ runner.pc = "exited" /\ runner.exitCode = 1 =>
         /\ MarkedIterations = {}
         /\ Len(runner.iterations) = runner.MaxIterations
    /\ runner.pc = "exited" => runner.exitCode \in {0, 1}

C17_WitnessMaxReached ==
  /\ runner.pc = "exited"
  /\ runner.exitCode = 1
  /\ runner.MaxIterations = MaxRunnerIterations
  /\ \A k \in 1..Len(runner.iterations) : runner.iterations[k].raised

\* ------------------------------------------------------------------------
\* Properties of the product lists
\* ------------------------------------------------------------------------
\* how often x is in list
Occurrences(list, x) == Cardinality({ i \in 1..Len(list) : list[i] = x })

IsPermutation(a, b) ==
  /\ Len(a) = Len(b)
  /\ \A i \in 1..Len(b) : Occurrences(a, b[i]) = Occurrences(b, b[i])

\* sub is list without some of its elements, the rest in the order of list
RECURSIVE IsSubList(_, _)
IsSubList(sub, list) ==
  IF sub = <<>> THEN TRUE
  ELSE IF list = <<>> THEN FALSE
  ELSE IF Head(sub) = Head(list) THEN IsSubList(Tail(sub), Tail(list))
  ELSE IsSubList(sub, Tail(list))

CatalogOps == {"sortProducts", "filterProducts", "searchProducts", "applyFiltersToProducts"}

\* C18: sortProducts, filterProducts and applyFiltersToProducts (and a
\* search) leave the list they are given as it was, in content and order;
\* sortProducts returns a new list that is a permutation of its input,
\* filterProducts a new sub-list in input order; so the cached catalog is the
\* same after every such operation.
C18_CatalogReadOnly ==
  [][last'.op \in CatalogOps =>
       /\ productsCache'.products = productsCache.products
       /\ last'.given = productsCache.products
       /\ last'.op = "sortProducts" =>
            last'.copied /\ IsPermutation(last'.returned, last'.given)
       /\ last'.op = "filterProducts" =>
            last'.copied /\ IsSubList(last'.returned, last'.given)
       /\ last'.op \in {"searchProducts", "applyFiltersToProducts"} =>
            \A i \in 1..Len(last'.returned) :
               Occurrences(last'.given, last'.returned[i]) >= 1]_vars

\* sortProducts returned a list of three products in another order than
\* that of the list given
C18_Witness ==
  /\ last.op = "sortProducts"
  /\ Len(last.given) = 3
  /\ last.returned # last.given
  /\ productsCache.products = last.given

\* filterProducts left some products out
C18_WitnessFiltered ==
  /\ last.op = "filterProducts"
  /\ Len(last.given) = 3
  /\ Len(last.returned) = 2

\* ------------------------------------------------------------------------
\* Properties of the checkout page
\* ------------------------------------------------------------------------
\* C19 as stated: when the checkout page places an order, the items and
\* totals of the order are those of the stored cart and promo code at that
\* moment, and the clearCart that follows removes only rows that are part of
\* the order, also when the cart or the promo code was changed after the
\* page was loaded.
C19_AsStated ==
  [][last'.op = "placeOrder" /\ last'.saved =>
       LET orders == StoredRows(ordersStore')
           placed == orders[Len(orders)]
           atPlacing == BuildOrder(getCart, getCartSummary)
       IN /\ placed.items = atPlacing.items
          /\ placed.totals = atPlacing.totals
          /\ \A i \in 1..Len(atPlacing.items) :
               \E k \in 1..Len(placed.items) : placed.items[k] = atPlacing.items[i]]_vars

====
